---- MODULE Spec2Model ----
(***************************************************************************)
(* PosixAbstractThread (onposix): one object wrapping one pthread.         *)
(* The object's fields are isStarted_ and handle_; the rest of the state   *)
(* is the part of the operating system the methods act on (the threads     *)
(* pthread_create made, pending cancellation requests, signal masks,       *)
(* pending signals, installed handlers) and the caller's position.         *)
(*                                                                         *)
(* One caller (the thread that constructed the object) invokes the public  *)
(* methods one after the other; the threads it creates run concurrently.   *)
(* A signal sent to a thread stays in sigPending until a handler consumes  *)
(* it; a signal that becomes deliverable without a handler installed ends  *)
(* the process by its default action, like a call on an invalid handle     *)
(* that kills it ("crash").                                                *)
(***************************************************************************)
EXTENDS Integers, FiniteSets, Sequences, TLC

\* Number of threads the system lets the process create (then EAGAIN).
MaxThreads == 2

VARIABLES
    isStarted_,     \* the object's flag
    handle_,        \* the object's pthread_t
    thr,            \* state of every thread id
    cancelPending,  \* threads with an accepted, not yet acted-on cancellation
    sigmask,        \* per-thread signal mask
    sigPending,     \* per-thread signals sent and not yet handled
    handlers,       \* signals with a handler installed (process-wide)
    callerPc,       \* "idle", "joining" (inside pthread_join) or "crashed"
    joinTarget,     \* the thread pthread_join waits for while "joining"
    lastOp,         \* the method the caller completed last
    lastRet,        \* its return value
    lastSys,        \* what its OS primitive answered: "none" when not called
    everStarted,    \* start() has been called on the object
    lastArg,        \* the sig argument of lastOp (0 when it takes none)
    maskAtCall,     \* the caller's signal mask when it entered its last call
    frame,          \* setSignalHandler's locals while the caller is inside it
    startPc,        \* where each concurrent caller of start() is
    raced           \* a caller tested isStarted_ while another was past its test

vars == <<isStarted_, handle_, thr, cancelPending, sigmask, sigPending,
          handlers, callerPc, joinTarget, lastOp, lastRet, lastSys,
          everStarted, lastArg, maskAtCall, frame, startPc, raced>>

\* Number of callers that use the object without serializing their calls.
NumCallers == 3
Callers == 1..NumCallers
\* The state of the concurrent callers.
concVars == <<startPc, raced>>

ThreadIds == 0..MaxThreads
\* The thread that constructed the object and calls its methods.
MainThread == CHOOSE t \in ThreadIds : \A u \in ThreadIds : t <= u
\* Thread ids pthread_create hands out.
Created == ThreadIds \ {MainThread}
\* A pthread_t value that names no thread.
Garbage == MaxThreads + 1

\* The signals of the model: SIGUSR1 (10), a valid signal that can be caught.
Sigs == {10}
\* Arguments tried for the int sig parameters: Sigs and the null signal 0,
\* which sigaddset and sigaction reject and pthread_kill does not send.
SigArgs == Sigs \cup {0}

\* h names a thread that is executing.
Live(h) == h \in ThreadIds /\ thr[h] = "run"
\* h names a thread whose entry point has finished and that nobody has joined.
Finished(h) == h \in Created /\ thr[h] \in {"exited", "cancelled"}
\* h names a thread pthread_join can wait for.
Joinable(h) == h \in Created /\ (Live(h) \/ Finished(h))
FreeIds == {t \in Created : thr[t] = "none"}
NextId == CHOOSE t \in FreeIds : \A u \in FreeIds : t <= u

\* The locals of setSignalHandler when the caller is not inside it.
NoFrame == [sig |-> 0, ret |-> TRUE]

\* What the caller records when a method with argument arg completes (or the
\* process dies in it).
Record(op, arg, ret, sys) ==
    /\ lastOp' = op
    /\ lastArg' = arg
    /\ lastRet' = ret
    /\ lastSys' = sys
    /\ callerPc' = IF sys = "crash" THEN "crashed" ELSE "idle"

\* The same for a method that is atomic with respect to the other threads:
\* the mask it was entered with is the current one.
DoneSig(op, arg, ret, sys) ==
    /\ Record(op, arg, ret, sys)
    /\ maskAtCall' = sigmask[MainThread]
    /\ frame' = NoFrame

\* The same for a method without argument.
Done(op, ret, sys) == DoneSig(op, 0, ret, sys)

(***************************************************************************)
(* The OS primitives: the answers each can give for a handle value.        *)
(* A handle that names no thread, or a thread already joined, is undefined *)
(* behaviour: the call fails with ESRCH or the process dies.               *)
(***************************************************************************)
pthread_create_outcomes == IF FreeIds = {} THEN {"fail"} ELSE {"ok", "fail"}

pthread_cancel_outcomes(h) ==
    IF Live(h) THEN {"ok"}
    ELSE IF Joinable(h) THEN {"ok", "fail"}
    ELSE {"fail", "crash"}

pthread_kill_outcomes(h) ==
    IF Live(h) THEN {"ok"}
    ELSE IF Joinable(h) THEN {"ok", "fail"}
    ELSE {"fail", "crash"}

pthread_join_outcomes(h) ==
    IF h = MainThread THEN {"fail"}
    ELSE IF Joinable(h) THEN {"block"}
    ELSE {"fail", "crash"}

Init ==
    /\ isStarted_ = FALSE
    /\ handle_ \in {Garbage, MainThread}
    /\ thr = [t \in ThreadIds |-> IF t = MainThread THEN "run" ELSE "none"]
    /\ cancelPending = {}
    /\ sigmask = [t \in ThreadIds |-> {}]
    /\ sigPending = [t \in ThreadIds |-> {}]
    /\ handlers = {}
    /\ callerPc = "idle"
    /\ joinTarget = Garbage
    /\ lastOp = "none"
    /\ lastRet = FALSE
    /\ lastSys = "none"
    /\ everStarted = FALSE
    /\ lastArg = 0
    /\ maskAtCall = {}
    /\ frame = NoFrame
    /\ startPc = [c \in Callers |-> "out"]
    /\ raced = FALSE

(***************************************************************************)
(* bool start()                                                            *)
(***************************************************************************)
\* start() without the isStarted_ test: every call creates a thread.
start_unguarded ==
    /\ UNCHANGED concVars
    /\ callerPc = "idle"
    /\ everStarted' = TRUE
    /\ UNCHANGED <<cancelPending, handlers, joinTarget>>
    /\ \E o \in pthread_create_outcomes :
         IF o = "ok"
         THEN /\ thr' = [thr EXCEPT ![NextId] = "run"]
              /\ handle_' = NextId
              /\ sigmask' = [sigmask EXCEPT ![NextId] = sigmask[MainThread]]
              /\ sigPending' = [sigPending EXCEPT ![NextId] = {}]
              /\ isStarted_' = TRUE
              /\ Done("start", TRUE, "ok")
         ELSE /\ handle_' \in {handle_, Garbage}
              /\ UNCHANGED <<isStarted_, thr, sigmask, sigPending>>
              /\ Done("start", isStarted_, "fail")

\* start() that sets isStarted_ whatever pthread_create answers.
start_ignoring_failure ==
    /\ UNCHANGED concVars
    /\ callerPc = "idle"
    /\ everStarted' = TRUE
    /\ UNCHANGED <<cancelPending, handlers, joinTarget>>
    /\ IF isStarted_
       THEN /\ Done("start", TRUE, "none")
            /\ UNCHANGED <<isStarted_, handle_, thr, sigmask, sigPending>>
       ELSE \E o \in pthread_create_outcomes :
              IF o = "ok"
              THEN /\ thr' = [thr EXCEPT ![NextId] = "run"]
                   /\ handle_' = NextId
                   /\ sigmask' = [sigmask EXCEPT ![NextId] = sigmask[MainThread]]
                   /\ sigPending' = [sigPending EXCEPT ![NextId] = {}]
                   /\ isStarted_' = TRUE
                   /\ Done("start", TRUE, "ok")
              ELSE /\ handle_' \in {handle_, Garbage}
                   /\ isStarted_' = TRUE
                   /\ UNCHANGED <<thr, sigmask, sigPending>>
                   /\ Done("start", TRUE, "fail")

\* start() that tests whether the owned thread is still executing instead of
\* testing isStarted_ alone.
start_testing_liveness ==
    /\ UNCHANGED concVars
    /\ callerPc = "idle"
    /\ everStarted' = TRUE
    /\ UNCHANGED <<cancelPending, handlers, joinTarget>>
    /\ IF isStarted_ /\ Live(handle_)
       THEN /\ Done("start", TRUE, "none")
            /\ UNCHANGED <<isStarted_, handle_, thr, sigmask, sigPending>>
       ELSE \E o \in pthread_create_outcomes :
              IF o = "ok"
              THEN /\ thr' = [thr EXCEPT ![NextId] = "run"]
                   /\ handle_' = NextId
                   /\ sigmask' = [sigmask EXCEPT ![NextId] = sigmask[MainThread]]
                   /\ sigPending' = [sigPending EXCEPT ![NextId] = {}]
                   /\ isStarted_' = TRUE
                   /\ Done("start", TRUE, "ok")
              ELSE /\ handle_' \in {handle_, Garbage}
                   /\ UNCHANGED <<isStarted_, thr, sigmask, sigPending>>
                   /\ Done("start", isStarted_, "fail")

start ==
    /\ UNCHANGED concVars
    /\ callerPc = "idle"
    /\ everStarted' = TRUE
    /\ UNCHANGED <<cancelPending, handlers, joinTarget>>
    /\ IF isStarted_
       THEN /\ Done("start", TRUE, "none")
            /\ UNCHANGED <<isStarted_, handle_, thr, sigmask, sigPending>>
       ELSE \E o \in pthread_create_outcomes :
              IF o = "ok"
              THEN /\ thr' = [thr EXCEPT ![NextId] = "run"]
                   /\ handle_' = NextId
                   /\ sigmask' = [sigmask EXCEPT ![NextId] = sigmask[MainThread]]
                   /\ sigPending' = [sigPending EXCEPT ![NextId] = {}]
                   /\ isStarted_' = TRUE
                   /\ Done("start", TRUE, "ok")
              ELSE /\ handle_' \in {handle_, Garbage}
                   /\ UNCHANGED <<isStarted_, thr, sigmask, sigPending>>
                   /\ Done("start", isStarted_, "fail")

(***************************************************************************)
(* bool stop()                                                             *)
(***************************************************************************)
\* stop() without the isStarted_ test: pthread_cancel is always called.
stop_unguarded ==
    /\ UNCHANGED concVars
    /\ callerPc = "idle"
    /\ UNCHANGED <<handle_, thr, sigmask, sigPending, handlers, joinTarget,
                   everStarted>>
    /\ isStarted_' = FALSE
    /\ \E o \in pthread_cancel_outcomes(handle_) :
         /\ cancelPending' = IF o = "ok" /\ Live(handle_)
                             THEN cancelPending \cup {handle_}
                             ELSE cancelPending
         /\ Done("stop", o = "ok", o)

\* stop() that clears isStarted_ only once pthread_cancel has succeeded.
stop_keeping_flag ==
    /\ UNCHANGED concVars
    /\ callerPc = "idle"
    /\ UNCHANGED <<handle_, thr, sigmask, sigPending, handlers, joinTarget,
                   everStarted>>
    /\ IF ~isStarted_
       THEN /\ Done("stop", FALSE, "none")
            /\ UNCHANGED <<isStarted_, cancelPending>>
       ELSE \E o \in pthread_cancel_outcomes(handle_) :
              /\ isStarted_' = (o # "ok")
              /\ cancelPending' = IF o = "ok" /\ Live(handle_)
                                  THEN cancelPending \cup {handle_}
                                  ELSE cancelPending
              /\ Done("stop", o = "ok", o)

\* stop() that reports success without the cancellation request reaching the
\* thread.
stop_without_cancel ==
    /\ UNCHANGED concVars
    /\ callerPc = "idle"
    /\ UNCHANGED <<handle_, thr, sigmask, sigPending, handlers, joinTarget,
                   everStarted>>
    /\ IF ~isStarted_
       THEN /\ Done("stop", FALSE, "none")
            /\ UNCHANGED <<isStarted_, cancelPending>>
       ELSE /\ isStarted_' = FALSE
            /\ \E o \in pthread_cancel_outcomes(handle_) :
                 /\ cancelPending' = cancelPending
                 /\ Done("stop", o = "ok", o)

\* stop() that also waits for the thread: it can run only once the thread
\* named by handle_ has finished.
stop_waiting ==
    /\ UNCHANGED concVars
    /\ callerPc = "idle"
    /\ UNCHANGED <<handle_, thr, sigmask, sigPending, handlers, joinTarget,
                   everStarted>>
    /\ IF ~isStarted_
       THEN /\ Done("stop", FALSE, "none")
            /\ UNCHANGED <<isStarted_, cancelPending>>
       ELSE /\ ~Live(handle_)
            /\ isStarted_' = FALSE
            /\ \E o \in pthread_cancel_outcomes(handle_) :
                 /\ cancelPending' = cancelPending
                 /\ Done("stop", o = "ok", o)

stop ==
    /\ UNCHANGED concVars
    /\ callerPc = "idle"
    /\ UNCHANGED <<handle_, thr, sigmask, sigPending, handlers, joinTarget,
                   everStarted>>
    /\ IF ~isStarted_
       THEN /\ Done("stop", FALSE, "none")
            /\ UNCHANGED <<isStarted_, cancelPending>>
       ELSE /\ isStarted_' = FALSE
            /\ \E o \in pthread_cancel_outcomes(handle_) :
                 /\ cancelPending' = IF o = "ok" /\ Live(handle_)
                                     THEN cancelPending \cup {handle_}
                                     ELSE cancelPending
                 /\ Done("stop", o = "ok", o)

(***************************************************************************)
(* bool waitForTermination(): the call, up to the point where              *)
(* pthread_join either answers at once or blocks.                          *)
(***************************************************************************)
waitForTermination ==
    /\ UNCHANGED concVars
    /\ callerPc = "idle"
    /\ UNCHANGED <<isStarted_, handle_, thr, cancelPending, sigmask,
                   sigPending, handlers, everStarted>>
    /\ \E o \in pthread_join_outcomes(handle_) :
         IF o = "block"
         THEN /\ callerPc' = "joining"
              /\ joinTarget' = handle_
              /\ UNCHANGED <<lastOp, lastRet, lastSys, lastArg, maskAtCall,
                             frame>>
         ELSE /\ joinTarget' = joinTarget
              /\ Done("wait", FALSE, o)

\* pthread_join returns 0 once the target's entry point has finished.
waitForTermination_return ==
    /\ UNCHANGED concVars
    /\ callerPc = "joining"
    /\ Finished(joinTarget)
    /\ thr' = [thr EXCEPT ![joinTarget] = "joined"]
    /\ joinTarget' = Garbage
    /\ Done("wait", TRUE, "ok")
    /\ UNCHANGED <<isStarted_, handle_, cancelPending, sigmask, sigPending,
                   handlers, everStarted>>

\* The signals in set become deliverable to a thread and one of them has no
\* handler: its default action ends the process.
Fatal(set) == set \ handlers # {}

(***************************************************************************)
(* bool blockSignal(int sig), bool unblockSignal(int sig): sigaddset       *)
(* rejects the null signal and leaves m empty; pthread_sigmask with a      *)
(* valid how cannot fail.                                                  *)
(***************************************************************************)
\* blockSignal() that changes the mask of the thread handle_ names.
blockSignal_on_owned(sig) ==
    /\ UNCHANGED concVars
    /\ callerPc = "idle"
    /\ sigmask' = IF Live(handle_)
                  THEN [sigmask EXCEPT ![handle_] = @ \cup ({sig} \cap Sigs)]
                  ELSE sigmask
    /\ DoneSig("block", sig, TRUE, "ok")
    /\ UNCHANGED <<isStarted_, handle_, thr, cancelPending, sigPending,
                   handlers, joinTarget, everStarted>>

blockSignal(sig) ==
    /\ UNCHANGED concVars
    /\ callerPc = "idle"
    /\ sigmask' = [sigmask EXCEPT ![MainThread] = @ \cup ({sig} \cap Sigs)]
    /\ DoneSig("block", sig, TRUE, "ok")
    /\ UNCHANGED <<isStarted_, handle_, thr, cancelPending, sigPending,
                   handlers, joinTarget, everStarted>>

\* unblockSignal() that passes SIG_SETMASK: the mask becomes m.
unblockSignal_setmask(sig) ==
    /\ UNCHANGED concVars
    /\ callerPc = "idle"
    /\ sigmask' = [sigmask EXCEPT ![MainThread] = {sig} \cap Sigs]
    /\ DoneSig("unblock", sig, TRUE, "ok")
    /\ UNCHANGED <<isStarted_, handle_, thr, cancelPending, sigPending,
                   handlers, joinTarget, everStarted>>

unblockSignal(sig) ==
    /\ UNCHANGED concVars
    /\ callerPc = "idle"
    /\ sigmask' = [sigmask EXCEPT ![MainThread] = @ \ ({sig} \cap Sigs)]
    /\ IF Fatal({sig} \cap sigPending[MainThread])
       THEN DoneSig("unblock", sig, FALSE, "crash")
       ELSE DoneSig("unblock", sig, TRUE, "ok")
    /\ UNCHANGED <<isStarted_, handle_, thr, cancelPending, sigPending,
                   handlers, joinTarget, everStarted>>

(***************************************************************************)
(* bool sendSignal(int sig): pthread_kill(handle_, sig), whatever          *)
(* isStarted_ says.  The null signal checks the handle and sends nothing.  *)
(***************************************************************************)
\* sendSignal() that signals the calling thread instead of handle_.
sendSignal_to_self(sig) ==
    /\ UNCHANGED concVars
    /\ callerPc = "idle"
    /\ UNCHANGED <<isStarted_, handle_, thr, cancelPending, sigmask, handlers,
                   joinTarget, everStarted>>
    /\ sigPending' = IF sig \in Sigs
                     THEN [sigPending EXCEPT ![MainThread] = @ \cup {sig}]
                     ELSE sigPending
    /\ DoneSig("send", sig, TRUE, "ok")

sendSignal(sig) ==
    /\ UNCHANGED concVars
    /\ callerPc = "idle"
    /\ UNCHANGED <<isStarted_, handle_, thr, cancelPending, sigmask, handlers,
                   joinTarget, everStarted>>
    /\ \E o \in pthread_kill_outcomes(handle_) :
         LET sent == IF o = "ok" /\ Live(handle_) THEN {sig} \cap Sigs ELSE {}
             open == IF sent = {} THEN {} ELSE sent \ sigmask[handle_]
         IN IF Fatal(open)
            THEN /\ sigPending' = sigPending
                 /\ DoneSig("send", sig, FALSE, "crash")
            ELSE /\ sigPending' =
                      IF sent = {} THEN sigPending
                      ELSE [sigPending EXCEPT ![handle_] = @ \cup sent]
                 /\ DoneSig("send", sig, o = "ok", o)

(***************************************************************************)
(* bool setSignalHandler(int sig, handler).  Signals can arrive while the  *)
(* caller is inside it, so it is two steps: up to and including sigaction  *)
(* (the caller's mask saved in oldset and filled, the handler installed    *)
(* unless sigaction rejects the signal number), and the rest (the saved    *)
(* mask put back, ret returned).  sigprocmask acts on the calling thread.  *)
(***************************************************************************)
\* setSignalHandler() that does not fill the caller's mask before sigaction.
setSignalHandler_unmasked(sig) ==
    /\ UNCHANGED concVars
    /\ callerPc = "idle"
    /\ callerPc' = "installing"
    /\ maskAtCall' = sigmask[MainThread]
    /\ handlers' = IF sig \in Sigs THEN handlers \cup {sig} ELSE handlers
    /\ frame' = [sig |-> sig, ret |-> sig \in Sigs]
    /\ UNCHANGED <<isStarted_, handle_, thr, cancelPending, sigmask,
                   sigPending, joinTarget, lastOp, lastRet, lastSys, lastArg,
                   everStarted>>

setSignalHandler(sig) ==
    /\ UNCHANGED concVars
    /\ callerPc = "idle"
    /\ callerPc' = "installing"
    /\ maskAtCall' = sigmask[MainThread]
    /\ sigmask' = [sigmask EXCEPT ![MainThread] = Sigs]
    /\ handlers' = IF sig \in Sigs THEN handlers \cup {sig} ELSE handlers
    /\ frame' = [sig |-> sig, ret |-> sig \in Sigs]
    /\ UNCHANGED <<isStarted_, handle_, thr, cancelPending, sigPending,
                   joinTarget, lastOp, lastRet, lastSys, lastArg,
                   everStarted>>

\* setSignalHandler() that leaves the caller's mask filled.
setSignalHandler_return_unrestored ==
    /\ UNCHANGED concVars
    /\ callerPc = "installing"
    /\ Record("sethandler", frame.sig, frame.ret,
              IF frame.ret THEN "ok" ELSE "fail")
    /\ frame' = NoFrame
    /\ UNCHANGED <<isStarted_, handle_, thr, cancelPending, sigmask,
                   sigPending, handlers, joinTarget, everStarted, maskAtCall>>

setSignalHandler_return ==
    /\ UNCHANGED concVars
    /\ callerPc = "installing"
    /\ sigmask' = [sigmask EXCEPT ![MainThread] = maskAtCall]
    /\ Record("sethandler", frame.sig, frame.ret,
              IF frame.ret THEN "ok" ELSE "fail")
    /\ frame' = NoFrame
    /\ UNCHANGED <<isStarted_, handle_, thr, cancelPending, sigPending,
                   handlers, joinTarget, everStarted, maskAtCall>>

(***************************************************************************)
(* void *Execute(void *param), on the created thread t: cancellation is    *)
(* enabled (and, by default, deferred) and th->run() is called.  A thread  *)
(* is "run" from pthread_create until its entry point finishes; its mask   *)
(* and pending signals go with it.                                         *)
(***************************************************************************)
\* Execute that marks the object as not started once run() has returned.
Execute_return_clearing(t) ==
    /\ UNCHANGED concVars
    /\ callerPc # "crashed"
    /\ thr[t] = "run"
    /\ thr' = [thr EXCEPT ![t] = "exited"]
    /\ cancelPending' = cancelPending \ {t}
    /\ sigmask' = [sigmask EXCEPT ![t] = {}]
    /\ sigPending' = [sigPending EXCEPT ![t] = {}]
    /\ isStarted_' = (isStarted_ /\ handle_ # t)
    /\ UNCHANGED <<handle_, handlers, callerPc, joinTarget,
                   lastOp, lastRet, lastSys, everStarted,
                   lastArg, maskAtCall, frame>>

\* run() returns and Execute returns 0.
Execute_return(t) ==
    /\ UNCHANGED concVars
    /\ callerPc # "crashed"
    /\ thr[t] = "run"
    /\ thr' = [thr EXCEPT ![t] = "exited"]
    /\ cancelPending' = cancelPending \ {t}
    /\ sigmask' = [sigmask EXCEPT ![t] = {}]
    /\ sigPending' = [sigPending EXCEPT ![t] = {}]
    /\ UNCHANGED <<isStarted_, handle_, handlers, callerPc, joinTarget,
                   lastOp, lastRet, lastSys, everStarted,
                   lastArg, maskAtCall, frame>>

\* run() reaches a cancellation point with a cancellation request pending:
\* the thread ends there, with PTHREAD_CANCELED as its result.
Execute_cancelled(t) ==
    /\ UNCHANGED concVars
    /\ callerPc # "crashed"
    /\ thr[t] = "run"
    /\ t \in cancelPending
    /\ thr' = [thr EXCEPT ![t] = "cancelled"]
    /\ cancelPending' = cancelPending \ {t}
    /\ sigmask' = [sigmask EXCEPT ![t] = {}]
    /\ sigPending' = [sigPending EXCEPT ![t] = {}]
    /\ UNCHANGED <<isStarted_, handle_, handlers, callerPc, joinTarget,
                   lastOp, lastRet, lastSys, everStarted,
                   lastArg, maskAtCall, frame>>

\* A pending, unmasked signal with an installed handler is handled on t.
handleSignal(t, sig) ==
    /\ UNCHANGED concVars
    /\ callerPc # "crashed"
    /\ Live(t)
    /\ sig \in (sigPending[t] \ sigmask[t]) \cap handlers
    /\ sigPending' = [sigPending EXCEPT ![t] = @ \ {sig}]
    /\ UNCHANGED <<isStarted_, handle_, thr, cancelPending, sigmask, handlers,
                   callerPc, joinTarget, lastOp, lastRet, lastSys, everStarted,
                   lastArg, maskAtCall, frame>>

Next ==
    \/ start
    \/ stop
    \/ waitForTermination
    \/ waitForTermination_return
    \/ \E sig \in SigArgs : blockSignal(sig)
    \/ \E sig \in SigArgs : unblockSignal(sig)
    \/ \E sig \in SigArgs : sendSignal(sig)
    \/ \E sig \in SigArgs : setSignalHandler(sig)
    \/ setSignalHandler_return
    \/ \E t \in Created : Execute_return(t)
    \/ \E t \in Created : Execute_cancelled(t)
    \/ \E t \in ThreadIds, sig \in Sigs : handleSignal(t, sig)

Spec == Init /\ [][Next]_vars

(***************************************************************************)
(* start() called by several callers that do not serialize their calls:    *)
(* the method takes no lock, so its three accesses to the object (the test *)
(* of isStarted_, pthread_create writing handle_, the write of isStarted_) *)
(* interleave with those of the other callers.                             *)
(***************************************************************************)
singleVars == <<cancelPending, sigPending, handlers, callerPc, joinTarget,
                lastOp, lastRet, lastSys, lastArg, maskAtCall, frame>>

\* if (isStarted_) return true; without the test.
start_test_unguarded(c) ==
    /\ startPc[c] = "out"
    /\ everStarted' = TRUE
    /\ startPc' = [startPc EXCEPT ![c] = "create"]
    /\ raced' = (raced \/ \E d \in Callers \ {c} : startPc[d] # "out")
    /\ UNCHANGED <<isStarted_, handle_, thr, sigmask>>
    /\ UNCHANGED singleVars

\* if (isStarted_) return true;
start_test(c) ==
    /\ startPc[c] = "out"
    /\ everStarted' = TRUE
    /\ IF isStarted_
       THEN UNCHANGED <<startPc, raced>>
       ELSE /\ startPc' = [startPc EXCEPT ![c] = "create"]
            /\ raced' = (raced \/ \E d \in Callers \ {c} : startPc[d] # "out")
    /\ UNCHANGED <<isStarted_, handle_, thr, sigmask>>
    /\ UNCHANGED singleVars

\* pthread_create(&handle_, NULL, Execute, this); on failure isStarted_,
\* as it is by then, is returned.
start_create(c) ==
    /\ startPc[c] = "create"
    /\ \E o \in pthread_create_outcomes :
         IF o = "ok"
         THEN /\ thr' = [thr EXCEPT ![NextId] = "run"]
              /\ handle_' = NextId
              /\ sigmask' = [sigmask EXCEPT ![NextId] = sigmask[MainThread]]
              /\ startPc' = [startPc EXCEPT ![c] = "set"]
         ELSE /\ handle_' \in {handle_, Garbage}
              /\ startPc' = [startPc EXCEPT ![c] = "out"]
              /\ UNCHANGED <<thr, sigmask>>
    /\ UNCHANGED <<isStarted_, everStarted, raced>>
    /\ UNCHANGED singleVars

\* isStarted_ = true; return isStarted_;
start_set(c) ==
    /\ startPc[c] = "set"
    /\ isStarted_' = TRUE
    /\ startPc' = [startPc EXCEPT ![c] = "out"]
    /\ UNCHANGED <<handle_, thr, sigmask, everStarted, raced>>
    /\ UNCHANGED singleVars

ConcNext ==
    \/ \E c \in Callers : start_test(c)
    \/ \E c \in Callers : start_create(c)
    \/ \E c \in Callers : start_set(c)
    \/ \E t \in Created : Execute_return(t)

ConcSpec == Init /\ [][ConcNext]_vars


\* The scheduling the liveness claims assume: a thread with a cancellation
\* request pending reaches a cancellation point, and pthread_join returns
\* once its target has finished.
FairSpec ==
    /\ Spec
    /\ \A t \in Created : WF_vars(Execute_cancelled(t))
    /\ WF_vars(waitForTermination_return)

\* The scheduling the claims about handlers assume: a thread with a pending,
\* unblocked signal that has a handler runs the handler.
SigFairSpec ==
    /\ Spec
    /\ \A t \in ThreadIds, sig \in Sigs : WF_vars(handleSignal(t, sig))

(***************************************************************************)
(* Properties                                                              *)
(***************************************************************************)
\* The threads the instance created that are executing run().
Running == {t \in Created : thr[t] = "run"}

\* C1 (as stated): a start() that directly follows another start() finds the
\* first one to have returned true, returns true itself, does not call
\* pthread_create and leaves handle_ and the set of native threads unchanged.
C1_StartTwice_AsStated ==
    [][(start /\ lastOp = "start")
          => /\ lastRet
             /\ lastRet'
             /\ lastSys' = "none"
             /\ handle_' = handle_
             /\ thr' = thr]_vars

\* C1 (amended): when the first of two successive start() calls returned true,
\* the second returns true, does not call pthread_create and leaves handle_
\* and the set of native threads unchanged.
C1_StartTwice ==
    [][(start /\ lastOp = "start" /\ lastRet)
          => /\ lastRet'
             /\ lastSys' = "none"
             /\ handle_' = handle_
             /\ thr' = thr]_vars

\* A start() has returned true without calling pthread_create.
C1_Witness ==
    lastOp = "start" /\ lastRet /\ lastSys = "none" /\ isStarted_

\* C2: at most one native thread created by the instance is executing run().
C2_AtMostOneRunning == Cardinality(Running) <= 1

\* C3: stop() on an instance on which start() was never called returns false,
\* calls no OS primitive and changes neither the object nor any thread.
C3_StopBeforeStart ==
    [][(stop /\ ~everStarted)
          => /\ callerPc' = "idle"
             /\ ~lastRet'
             /\ lastSys' = "none"
             /\ ~isStarted_'
             /\ UNCHANGED <<isStarted_, handle_, thr, cancelPending, sigmask,
                            sigPending, handlers>>]_vars

\* stop() has returned on an instance that was never started.
C3_Witness == lastOp = "stop" /\ ~everStarted /\ callerPc = "idle"

\* C4: sendSignal(sig) on an instance on which start() was never called
\* returns false and no thread gets a signal.
C4_SendBeforeStart ==
    [][((\E sig \in Sigs : sendSignal(sig)) /\ ~everStarted)
          => /\ callerPc' = "idle"
             /\ ~lastRet'
             /\ sigPending' = sigPending]_vars

\* C5: sendSignal(sig) called right after a stop() that returned true, so
\* with isStarted_ false, returns false and no thread gets a signal.
C5_SendAfterStop ==
    [][((\E sig \in Sigs : sendSignal(sig))
            /\ ~isStarted_ /\ lastOp = "stop" /\ lastRet)
          => /\ ~lastRet'
             /\ sigPending' = sigPending]_vars

\* C6: waitForTermination() called right after a stop() that returned true
\* enters pthread_join, comes back only once the target's entry point has
\* finished, and eventually returns true.
C6_JoinAfterStop ==
    /\ [][(waitForTermination /\ lastOp = "stop" /\ lastRet)
             => callerPc' = "joining"]_vars
    /\ [][(callerPc = "joining" /\ callerPc' # "joining")
             => /\ Finished(joinTarget)
                /\ callerPc' = "idle" /\ lastOp' = "wait" /\ lastRet']_vars
    /\ (callerPc = "joining" /\ lastOp = "stop" /\ lastRet)
          ~> (callerPc = "idle" /\ lastOp = "wait" /\ lastRet)

\* The caller is inside pthread_join after a stop() that returned true, and
\* the thread it waits for is still executing.
C6_Witness ==
    /\ callerPc = "joining" /\ lastOp = "stop" /\ lastRet
    /\ Live(joinTarget) /\ joinTarget \in cancelPending

\* C7: stop() on a started instance clears isStarted_ whatever pthread_cancel
\* answers, returns true exactly when pthread_cancel succeeded, and does not
\* change the state of any thread.
C7_StopRunning ==
    [][(stop /\ isStarted_)
          => /\ ~isStarted_'
             /\ lastSys' # "none"
             /\ callerPc' = "idle" => (lastRet' <=> lastSys' = "ok")
             /\ thr' = thr]_vars

\* stop() has returned false on an instance that was started: the request was
\* rejected and the object is idle all the same.
C7_Witness ==
    lastOp = "stop" /\ ~lastRet /\ lastSys = "fail" /\ ~isStarted_

\* C8: start() on an idle instance calls pthread_create; it returns true,
\* sets isStarted_ and binds handle_ to the new thread exactly when the call
\* succeeds; when it fails it returns false, isStarted_ stays false and no
\* thread is created.
C8_StartIdle ==
    [][(start /\ ~isStarted_)
          => /\ lastSys' \in {"ok", "fail"}
             /\ lastSys' = "ok"
                  => /\ lastRet' /\ isStarted_'
                     /\ handle_' \in Created
                     /\ thr[handle_'] = "none"
                     /\ thr' = [thr EXCEPT ![handle_'] = "run"]
             /\ lastSys' = "fail"
                  => /\ ~lastRet' /\ ~isStarted_'
                     /\ thr' = thr]_vars

\* start() has failed: it returned false and the instance is idle.
C8_Witness ==
    lastOp = "start" /\ lastSys = "fail" /\ ~lastRet /\ ~isStarted_

\* C9: waitForTermination() on a never started instance, or right after a
\* waitForTermination() that returned true, returns false without blocking.
C9_JoinInvalid ==
    [][(waitForTermination /\ (~everStarted \/ (lastOp = "wait" /\ lastRet)))
          => /\ callerPc' = "idle"
             /\ lastOp' = "wait"
             /\ ~lastRet']_vars

\* C10: every method but waitForTermination() can be called whenever the
\* caller is not inside a call, whatever the threads are doing, and does not
\* leave the caller blocked; a caller inside pthread_join stays there for as
\* long as the target's entry point has not finished.
C10_OnlyJoinBlocks ==
    /\ [](callerPc = "idle"
            => /\ ENABLED start
               /\ ENABLED stop
               /\ \A sig \in SigArgs :
                    /\ ENABLED blockSignal(sig)
                    /\ ENABLED unblockSignal(sig)
                    /\ ENABLED sendSignal(sig)
                    /\ ENABLED setSignalHandler(sig))
    /\ [][(\/ start
           \/ stop
           \/ \E sig \in SigArgs : blockSignal(sig)
           \/ \E sig \in SigArgs : unblockSignal(sig)
           \/ \E sig \in SigArgs : sendSignal(sig)
           \/ \E sig \in SigArgs : setSignalHandler(sig))
             => callerPc' # "joining"]_vars
    /\ [][(callerPc = "joining" /\ ~Finished(joinTarget))
             => callerPc' = "joining"]_vars

\* The caller is blocked in pthread_join on a thread that is executing and
\* has no cancellation request pending.
C10_Witness ==
    callerPc = "joining" /\ Live(joinTarget) /\ joinTarget \notin cancelPending

\* C11 (as stated): unblockSignal(S) called right after blockSignal(S) leaves
\* the caller's mask as it was before the blockSignal(S), whatever that mask.
C11_BlockUnblock_AsStated ==
    [][\A S \in SigArgs :
         (unblockSignal(S) /\ lastOp = "block" /\ lastArg = S)
           => sigmask'[MainThread] = maskAtCall]_vars

\* C11 (amended): the same for every S that was not blocked in the caller's
\* mask before the blockSignal(S).
C11_BlockUnblock ==
    [][\A S \in SigArgs :
         (unblockSignal(S) /\ lastOp = "block" /\ lastArg = S
            /\ S \notin maskAtCall)
           => sigmask'[MainThread] = maskAtCall]_vars

\* unblockSignal(S) has removed a blocked signal S from the caller's mask.
C11_Witness ==
    /\ lastOp = "unblock" /\ lastArg \in Sigs /\ callerPc = "idle"
    /\ lastArg \in maskAtCall /\ lastArg \notin sigmask[MainThread]

\* C12 (as stated): with a handler for sig installed and the instance
\* started, every sendSignal(sig) that returns true creates a delivery of its
\* own on the owned thread, when that thread is executing: sig, not pending
\* on it before, is pending on it after.
C12_OncePerSend_AsStated ==
    [][\A sig \in Sigs :
         (sendSignal(sig) /\ isStarted_ /\ sig \in handlers /\ lastRet'
            /\ Live(handle_))
           => /\ sig \notin sigPending[handle_]
              /\ sig \in sigPending'[handle_]]_vars

\* C12 (amended): a sendSignal(sig) that returns true while the owned thread
\* is executing leaves sig pending on it, and changes nothing when sig was
\* pending already; every run of the handler consumes a pending, unblocked
\* sig; a pending, unblocked sig is handled unless the thread ends first.
C12_OncePerSend ==
    /\ [][\A sig \in Sigs :
            (sendSignal(sig) /\ isStarted_ /\ sig \in handlers /\ lastRet'
               /\ Live(handle_))
              => /\ sig \in sigPending'[handle_]
                 /\ sig \in sigPending[handle_] => sigPending' = sigPending
                 /\ \A t \in ThreadIds \ {handle_} :
                      sigPending'[t] = sigPending[t]]_vars
    /\ [][\A t \in ThreadIds, sig \in Sigs :
            handleSignal(t, sig)
              => /\ sig \in (sigPending[t] \ sigmask[t]) \cap handlers
                 /\ sig \notin sigPending'[t]]_vars
    /\ \A t \in Created, sig \in Sigs :
         (Live(t) /\ sig \in (sigPending[t] \ sigmask[t]) \cap handlers)
           ~> (sig \notin sigPending[t] \/ callerPc = "crashed")

\* sendSignal(sig) has returned true for a started instance with a handler
\* installed, and sig is pending on the owned, executing thread.
C12_Witness ==
    /\ lastOp = "send" /\ lastRet /\ lastArg \in Sigs /\ callerPc = "idle"
    /\ isStarted_ /\ Live(handle_) /\ lastArg \in handlers
    /\ lastArg \in sigPending[handle_] \ sigmask[handle_]

\* C13: setSignalHandler(sig, h) saves the caller's mask and fills it before
\* sigaction, keeps it filled until it puts the saved mask back, so that the
\* mask after the call is the mask before it; no handler runs on the caller
\* in between; it returns false exactly when sigaction failed, and then no
\* handler was installed.
C13_HandlerInstall ==
    /\ [][\A sig \in SigArgs :
            setSignalHandler(sig)
              => /\ maskAtCall' = sigmask[MainThread]
                 /\ sigmask'[MainThread] = Sigs
                 /\ callerPc' = "installing"
                 /\ frame'.ret <=> sig \in handlers'
                 /\ ~frame'.ret => handlers' = handlers]_vars
    /\ [][(callerPc = "installing" /\ callerPc' = "installing")
             => /\ sigmask'[MainThread] = Sigs
                /\ maskAtCall' = maskAtCall
                /\ sigPending'[MainThread] = sigPending[MainThread]]_vars
    /\ [][(callerPc = "installing" /\ callerPc' # "installing")
             => /\ callerPc' = "idle" /\ lastOp' = "sethandler"
                /\ sigmask'[MainThread] = maskAtCall
                /\ sigPending'[MainThread] = sigPending[MainThread]
                /\ lastRet' = frame.ret
                /\ lastRet' <=> lastSys' = "ok"]_vars
    /\ [][callerPc = "installing"
             => ~ \E sig \in Sigs : handleSignal(MainThread, sig)]_vars

\* The caller is inside setSignalHandler with a signal pending on it that
\* was unblocked before the call and has a handler.
C13_Witness ==
    /\ callerPc = "installing"
    /\ \E sig \in Sigs :
         sig \in (sigPending[MainThread] \ maskAtCall) \cap handlers

\* C14: blockSignal(sig) and unblockSignal(sig) change the mask of the
\* calling thread only, and there add or remove nothing but sig; the mask of
\* the owned thread and of every other thread stays as it is.
C14_CallerMaskOnly ==
    [][\A sig \in SigArgs :
         /\ blockSignal(sig)
              => /\ \A t \in ThreadIds \ {MainThread} : sigmask'[t] = sigmask[t]
                 /\ sigmask[MainThread] \subseteq sigmask'[MainThread]
                 /\ sigmask'[MainThread] \ sigmask[MainThread] \subseteq {sig}
                 /\ sig \in Sigs => sig \in sigmask'[MainThread]
         /\ unblockSignal(sig)
              => /\ \A t \in ThreadIds \ {MainThread} : sigmask'[t] = sigmask[t]
                 /\ sigmask'[MainThread] \subseteq sigmask[MainThread]
                 /\ sigmask[MainThread] \ sigmask'[MainThread] \subseteq {sig}
                 /\ sig \notin sigmask'[MainThread]]_vars

\* blockSignal(S) has blocked S for the caller while the owned thread, which
\* is executing, still has S unblocked.
C14_Witness ==
    /\ lastOp = "block" /\ lastArg \in Sigs /\ callerPc = "idle"
    /\ lastArg \in sigmask[MainThread]
    /\ isStarted_ /\ Live(handle_) /\ handle_ # MainThread
    /\ lastArg \notin sigmask[handle_]

\* The native threads the instance has created.
NativeThreads == {t \in Created : thr[t] # "none"}

\* C15: with callers that do not serialize their calls to start(), the
\* instance comes to own more than one native thread only through a race: a
\* caller tested isStarted_ while another caller was between its own test
\* and its write of isStarted_.  As long as no call overlaps another in that
\* way, at most one thread is created.
C15_RaceOnly == Cardinality(NativeThreads) >= 2 => raced

\* Two callers have both found isStarted_ false and both created a thread;
\* both calls are over and handle_ names one of the two threads only.
C15_Witness ==
    /\ raced /\ isStarted_
    /\ \A c \in Callers : startPc[c] = "out"
    /\ Cardinality(NativeThreads) >= 2
    /\ handle_ \in NativeThreads

\* C16: isStarted_ changes only in start(), from false to true when
\* pthread_create succeeds, and in stop(), from true to false;
\* waitForTermination(), blockSignal(), unblockSignal(), sendSignal(),
\* setSignalHandler() and the return of run() on a thread leave isStarted_
\* and handle_ as they are.
C16_StartedFrame ==
    /\ [][(~isStarted_ /\ isStarted_')
             => (start /\ lastOp' = "start" /\ lastSys' = "ok")]_vars
    /\ [][(isStarted_ /\ ~isStarted_') => (stop /\ lastOp' = "stop")]_vars
    /\ [][(\/ waitForTermination
           \/ waitForTermination_return
           \/ \E sig \in SigArgs : blockSignal(sig)
           \/ \E sig \in SigArgs : unblockSignal(sig)
           \/ \E sig \in SigArgs : sendSignal(sig)
           \/ \E sig \in SigArgs : setSignalHandler(sig)
           \/ setSignalHandler_return
           \/ \E t \in Created : Execute_return(t))
             => (isStarted_' = isStarted_ /\ handle_' = handle_)]_vars

\* run() has returned on the owned thread and waitForTermination() has joined
\* it: the object is still marked started and handle_ still names the thread.
C16_Witness ==
    /\ lastOp = "wait" /\ lastRet /\ callerPc = "idle"
    /\ isStarted_ /\ handle_ \in Created /\ thr[handle_] = "joined"

\* C17: a stop() called while isStarted_ is false, after an earlier start(),
\* returns false without calling pthread_cancel: no cancellation request is
\* added and isStarted_ stays false.
C17_OneCancelPerStart ==
    [][(stop /\ ~isStarted_ /\ everStarted)
         => /\ ~lastRet' /\ lastSys' = "none"
            /\ ~isStarted_'
            /\ cancelPending' = cancelPending
            /\ thr' = thr]_vars

\* A second stop() has returned false while the request of the first one is
\* still pending on the owned thread, which is executing.
C17_Witness ==
    /\ lastOp = "stop" /\ ~lastRet /\ lastSys = "none"
    /\ ~isStarted_ /\ Live(handle_) /\ handle_ \in cancelPending

\* C18: the end of run() and the join of the thread leave isStarted_ true, so
\* start() on such an instance returns true without calling pthread_create;
\* a thread is created only by a start() that finds isStarted_ false, and
\* isStarted_ true becomes false only in stop().
C18_NoRestartWithoutStop ==
    /\ [][(start /\ isStarted_ /\ ~Live(handle_))
             => /\ lastRet' /\ lastSys' = "none"
                /\ thr' = thr /\ handle_' = handle_
                /\ Running' = Running]_vars
    /\ [][((\E t \in Created : Execute_return(t)) \/ waitForTermination_return)
             => isStarted_' = isStarted_]_vars
    /\ [][NativeThreads' # NativeThreads
             => (start /\ ~isStarted_ /\ lastSys' = "ok")]_vars
    /\ [][(isStarted_ /\ ~isStarted_') => lastOp' = "stop"]_vars

\* start() has just returned true without calling pthread_create on an
\* instance whose thread has been joined: no thread executes run().
C18_Witness ==
    /\ lastOp = "start" /\ lastRet /\ lastSys = "none"
    /\ isStarted_ /\ handle_ \in Created /\ thr[handle_] = "joined"
    /\ Running = {}

====
